---- MODULE Spec2Model ----
(***************************************************************************)
(* Model of audit.py: the dependency audit of a Go project managed by dep. *)
(* Strings are sequences of one-character strings, so that startswith,    *)
(* replace, split, slicing and concatenation are computed character by     *)
(* character as Python computes them.                                      *)
(***************************************************************************)
EXTENDS Integers, Sequences, FiniteSets, TLC

VARIABLES
    args,        \* sys.argv[1:], the list main receives
    aliases,     \* the module-level dict ALIASES, read at call time
    tomlFile,    \* the project's Gopkg.toml as the world holds it
    lockFile,    \* the project's Gopkg.lock as the world holds it
    cwd,         \* the files of the current working directory: name -> lines
    pc,          \* position of the run
    fetcher,     \* the fetcher object main constructed
    project,     \* the project name handed to generate_csv_file
    pkg,         \* parsed Gopkg.toml (audit's local pkg)
    lock,        \* parsed Gopkg.lock (audit's local lock)
    deps,        \* the dict audit() returned
    stdout,      \* what was printed, in order
    opened,      \* the paths and URLs the fetcher opened, in order
    exitStatus,  \* -1 while running, else the exit status of the process
    error,       \* the uncaught exception that ended the run, or "none"
    nIn,         \* Normalizer call: the argument
    nTable,      \* Normalizer call: self.normalizations in iteration order
    nOut,        \* Normalizer call: the value returned
    nOp          \* Normalizer call: the method that ran, or "none"

vars == <<args, aliases, tomlFile, lockFile, cwd, pc, fetcher, project, pkg,
          lock, deps, stdout, opened, exitStatus, error, nIn, nTable, nOut, nOp>>

mainVars == <<args, aliases, tomlFile, lockFile, cwd, pc, fetcher, project, pkg,
              lock, deps, stdout, opened, exitStatus, error>>

normVars == <<nIn, nTable, nOut, nOp>>

----------------------------------------------------------------------------
(* String literals of the source.                                          *)

\* 'local'
s_local ==
    <<"l","o","c","a","l">>

\* 'remote'
s_remote ==
    <<"r","e","m","o","t","e">>

\* 'Gopkg.toml'
s_Gopkg_toml ==
    <<"G","o","p","k","g",".","t","o","m","l">>

\* 'Gopkg.lock'
s_Gopkg_lock ==
    <<"G","o","p","k","g",".","l","o","c","k">>

\* '-audit.csv'
s_audit_csv ==
    <<"-","a","u","d","i","t",".","c","s","v">>

\* 'https://raw.githubusercontent.com/'
s_url_base ==
    <<"h","t","t","p","s",":","/","/","r","a","w",".","g","i","t","h","u","b","u","s","e","r","c","o","n","t","e","n","t",".","c","o","m","/">>

\* '/master/'
s_master ==
    <<"/","m","a","s","t","e","r","/">>

\* 'Dependency,Short Name,SHA\n'
s_header ==
    <<"D","e","p","e","n","d","e","n","c","y",",","S","h","o","r","t"," ","N","a","m","e",",","S","H","A","\n">>

\* 'gopkg.in/ini.v1'
s_gopkg_ini ==
    <<"g","o","p","k","g",".","i","n","/","i","n","i",".","v","1">>

\* 'github.com/go-ini/ini'
s_go_ini ==
    <<"g","i","t","h","u","b",".","c","o","m","/","g","o","-","i","n","i","/","i","n","i">>

\* 'k8s.io'
s_k8s_io ==
    <<"k","8","s",".","i","o">>

\* 'github.com/kubernetes'
s_gh_kubernetes ==
    <<"g","i","t","h","u","b",".","c","o","m","/","k","u","b","e","r","n","e","t","e","s">>

\* 'gopkg.in/yaml.v2'
s_gopkg_yaml ==
    <<"g","o","p","k","g",".","i","n","/","y","a","m","l",".","v","2">>

\* 'github.com/go-yaml/yaml'
s_go_yaml ==
    <<"g","i","t","h","u","b",".","c","o","m","/","g","o","-","y","a","m","l","/","y","a","m","l">>


----------------------------------------------------------------------------
(* Python built-ins the program uses.                                      *)

\* s[:n]
Take(s, n) ==
    SubSeq(s, 1, IF n < Len(s) THEN n ELSE Len(s))

\* s[n:]
Drop(s, n) ==
    SubSeq(s, n + 1, Len(s))

\* s.startswith(p)
StartsWith(s, p) ==
    Len(p) <= Len(s) /\ SubSeq(s, 1, Len(p)) = p

\* s.replace(old, new) for a non-empty old: every non-overlapping occurrence,
\* scanning left to right
RECURSIVE Replace(_, _, _)
Replace(s, old, new) ==
    IF Len(s) < Len(old) THEN s
    ELSE IF StartsWith(s, old) THEN new \o Replace(Drop(s, Len(old)), old, new)
    ELSE <<Head(s)>> \o Replace(Tail(s), old, new)

\* d[k] = v on a dict
Put(d, k, v) ==
    [x \in (DOMAIN d) \cup {k} |-> IF x = k THEN v ELSE d[x]]

\* {} : the empty dict
EmptyDict ==
    <<>>

\* the orders in which iteritems() may yield the keys of a dict
RECURSIVE Orders(_)
Orders(S) ==
    IF S = {} THEN {<<>>}
    ELSE UNION {{<<x>> \o o : o \in Orders(S \ {x})} : x \in S}

----------------------------------------------------------------------------
(* The tables.                                                             *)

ALIASES ==
    (s_gopkg_ini :> s_go_ini)

NORMALIZATIONS ==
    (s_k8s_io :> s_gh_kubernetes) @@ (s_gopkg_yaml :> s_go_yaml)

\* a dict as the list of (key, value) pairs iteritems() yields, in one of
\* the orders the interpreter may use
ItemLists(d) ==
    {[i \in 1..Len(o) |-> <<o[i], d[o[i]]>>] : o \in Orders(DOMAIN d)}

----------------------------------------------------------------------------
(* Normalizer                                                              *)

\* for key, value in items: if dep.startswith(key): return dep.replace(key, value)
RECURSIVE normalize_loop(_, _)
normalize_loop(dep, items) ==
    IF items = <<>> THEN dep
    ELSE IF StartsWith(dep, Head(items)[1])
         THEN Replace(dep, Head(items)[1], Head(items)[2])
         ELSE normalize_loop(dep, Tail(items))

normalize_dep(dep, items) ==
    normalize_loop(dep, items)

\* the index of the last "/" of dep, 0 when it has none
LastSlash(dep) ==
    LET at == {i \in 1..Len(dep) : dep[i] = "/"}
    IN  IF at = {} THEN 0 ELSE CHOOSE i \in at : \A j \in at : j <= i

\* the index of the first "/" of dep, Len(dep) + 1 when it has none
FirstSlash(dep) ==
    LET at == {i \in 1..Len(dep) : dep[i] = "/"}
    IN  IF at = {} THEN Len(dep) + 1 ELSE CHOOSE i \in at : \A j \in at : i <= j

short_name_first(dep) ==
    Take(dep, FirstSlash(dep) - 1)

\* dep.split('/')[-1]
short_name(dep) ==
    Drop(dep, LastSlash(dep))

ShaLen ==
    6

short_sha_seven(sha) ==
    Take(sha, ShaLen + 1)

\* sha[:6]
short_sha(sha) ==
    Take(sha, ShaLen)

----------------------------------------------------------------------------
(* The strings the inputs are built from.                                   *)

\* '/r': a checkout directory, written without a trailing separator
i_repo ==
    <<"/","r">>

\* 'o': a GitHub organisation
i_org ==
    <<"o">>

\* 'p': a project name
i_proj ==
    <<"p">>

\* 'x': any other word
i_other ==
    <<"x">>

\* 'k8s.io/kubernetes'
i_k8s_kubernetes ==
    <<"k","8","s",".","i","o","/","k","u","b","e","r","n","e","t","e","s">>

\* 'fff5156092b5'
i_fff ==
    <<"f","f","f","5","1","5","6","0","9","2","b","5">>

\* 'abcdef1234567'
i_abc ==
    <<"a","b","c","d","e","f","1","2","3","4","5","6","7">>

\* 'abc': a revision shorter than six characters
i_short ==
    <<"a","b","c">>

\* 'old\n': a line of a report left by an earlier run
i_old ==
    <<"o","l","d","\n">>

\* 'kubernetes'
i_kubernetes ==
    <<"k","u","b","e","r","n","e","t","e","s">>

----------------------------------------------------------------------------
(* The inputs: the command line, the two files of the project and the     *)
(* working directory.                                                      *)

MaxConstraints ==
    2

MaxProjects ==
    2

SeqsUpTo(S, n) ==
    UNION {[1..k -> S] : k \in 0..n}

\* the names a [[constraint]] of Gopkg.toml may bear
ConstraintNames ==
    {i_k8s_kubernetes, s_gopkg_yaml, s_gopkg_ini, s_go_ini}

\* the [[projects]] Gopkg.lock may hold; two of them bear the same name
LockEntries ==
    {[name |-> i_k8s_kubernetes, revision |-> i_fff],
     [name |-> i_k8s_kubernetes, revision |-> i_abc],
     [name |-> s_go_yaml, revision |-> i_abc],
     [name |-> s_go_ini, revision |-> i_short]}

\* toml.loads of a Gopkg.toml; the documents carry the collection the program
\* indexes, as the input format has it
PkgDocs ==
    {[constraint |-> cs] : cs \in SeqsUpTo([name : ConstraintNames], MaxConstraints)}

\* toml.loads of a Gopkg.lock
LockDocs ==
    {[projects |-> ps] : ps \in SeqsUpTo(LockEntries, MaxProjects)}

\* what a path or URL may hold: nothing, text that is not TOML, or a document
Absent ==
    [kind |-> "absent"]

Malformed ==
    [kind |-> "malformed"]

FileOf(doc) ==
    [kind |-> "toml", doc |-> doc]

\* the directory of the checkout, as the file system names it
RepoDir ==
    i_repo \o <<"/">>

\* the command lines
ArgLists ==
    {<<>>,
     <<i_other>>,
     <<s_local>>,
     <<s_remote, i_org>>,
     <<s_local, RepoDir, i_proj>>,
     <<s_local, i_repo, i_proj>>,
     <<s_remote, i_org, i_proj>>,
     <<s_local, RepoDir, i_proj, i_other>>}

\* the alias tables: the one the module sets, and the one of the yaml scenario
ScenarioAliases ==
    (s_gopkg_yaml :> s_go_yaml)

AliasTables ==
    {ALIASES, ScenarioAliases}

\* the working directory before the run: empty, or holding an earlier report
WorkDirs ==
    {EmptyDict, (i_proj \o s_audit_csv) :> <<i_old>>}

----------------------------------------------------------------------------
(* GithubRawFileFetcher and LocalRepoFetcher                               *)

\* url % (self.org, project, filename)
RawUrl(org, proj, filename) ==
    s_url_base \o org \o <<"/">> \o proj \o s_master \o filename

\* file_path = self.location + filename
LocalPath(location, filename) ==
    location \o filename

\* the path or URL the fetcher f opens for filename
Target(f, filename) ==
    IF f.kind = "local" THEN LocalPath(f.location, filename)
    ELSE RawUrl(f.org, f.project, filename)

\* what the world holds at a path or URL
Resource(r) ==
    IF r \in {RepoDir \o s_Gopkg_toml, RawUrl(i_org, i_proj, s_Gopkg_toml)}
    THEN tomlFile
    ELSE IF r \in {RepoDir \o s_Gopkg_lock, RawUrl(i_org, i_proj, s_Gopkg_lock)}
    THEN lockFile
    ELSE Absent

\* the exception fetch_toml raises on a resource, "none" when it returns
FetchError(f, res) ==
    IF res.kind = "absent" THEN (IF f.kind = "local" THEN "IOError" ELSE "HTTPError")
    ELSE IF res.kind = "malformed" THEN "TomlDecodeError"
    ELSE "none"

----------------------------------------------------------------------------
(* Auditor                                                                 *)

\* the alias table is never consulted
alias_none(dep, table) ==
    dep

\* if dep in ALIASES: dep = ALIASES[dep]
alias(dep, table) ==
    IF dep \in DOMAIN table THEN table[dep] ELSE dep

\* {project['name']: project['revision'] for project in lock['projects']}
RECURSIVE locked_loop(_, _)
locked_loop(projects, acc) ==
    IF projects = <<>> THEN acc
    ELSE locked_loop(Tail(projects),
                     Put(acc, Head(projects).name, Head(projects).revision))

\* the first entry of a name is kept, later ones are dropped
RECURSIVE locked_first_loop(_, _)
locked_first_loop(projects, acc) ==
    IF projects = <<>> THEN acc
    ELSE locked_first_loop(Tail(projects),
                           IF Head(projects).name \in DOMAIN acc THEN acc
                           ELSE Put(acc, Head(projects).name, Head(projects).revision))

locked_of_first(lockDoc) ==
    locked_first_loop(lockDoc.projects, EmptyDict)

locked_of(lockDoc) ==
    locked_loop(lockDoc.projects, EmptyDict)

Warning(dep) ==
    [kind |-> "warning", dep |-> dep]

\* for constraint in pkg['constraint']: ...
RECURSIVE constraint_loop(_, _, _, _)
constraint_loop(constraints, locked, table, acc) ==
    IF constraints = <<>> THEN acc
    ELSE LET dep == alias(Head(constraints).name, table)
         IN  constraint_loop(
                 Tail(constraints), locked, table,
                 IF dep \in DOMAIN locked
                 THEN [result |-> Put(acc.result, dep, locked[dep]),
                       printed |-> acc.printed]
                 ELSE [result |-> acc.result,
                       printed |-> Append(acc.printed, Warning(dep))])

\* the result is keyed by the name as the constraint writes it
RECURSIVE constraint_loop_rawkey(_, _, _, _)
constraint_loop_rawkey(constraints, locked, table, acc) ==
    IF constraints = <<>> THEN acc
    ELSE LET dep == alias(Head(constraints).name, table)
         IN  constraint_loop_rawkey(
                 Tail(constraints), locked, table,
                 IF dep \in DOMAIN locked
                 THEN [result |-> Put(acc.result, Head(constraints).name, locked[dep]),
                       printed |-> acc.printed]
                 ELSE [result |-> acc.result,
                       printed |-> Append(acc.printed, Warning(dep))])

third_party_constraints_rawkey(pkgDoc, lockDoc, table) ==
    constraint_loop_rawkey(pkgDoc.constraint, locked_of(lockDoc), table,
                           [result |-> EmptyDict, printed |-> <<>>])

\* only the first name the lock does not hold is reported
third_party_constraints_one_warning(pkgDoc, lockDoc, table) ==
    LET r == constraint_loop(pkgDoc.constraint, locked_of(lockDoc), table,
                             [result |-> EmptyDict, printed |-> <<>>])
    IN  [result |-> r.result, printed |-> Take(r.printed, 1)]

\* the dict returned, and the warnings printed on the way
third_party_constraints(pkgDoc, lockDoc, table) ==
    constraint_loop(pkgDoc.constraint, locked_of(lockDoc), table,
                    [result |-> EmptyDict, printed |-> <<>>])

----------------------------------------------------------------------------
(* generate_csv_file                                                       *)

\* csv_file = project_name + '-audit.csv'
csv_file(project_name) ==
    project_name \o s_audit_csv

\* '%s,%s,%s\n' % (dep_name, dep_short_name, dep_sha)
CsvLine(dep, sha, items) ==
    LET dep_name == normalize_dep(dep, items)
        dep_short_name == short_name(dep_name)
        dep_sha == short_sha(sha)
    IN  dep_name \o <<",">> \o dep_short_name \o <<",">> \o dep_sha \o <<"\n">>

\* the lines written for the dict d, its keys yielded in the given order
CsvLines(d, order, items) ==
    <<s_header>> \o [i \in 1..Len(order) |-> CsvLine(order[i], d[order[i]], items)]

----------------------------------------------------------------------------
(* The run of the program.                                                 *)

Unset ==
    [kind |-> "unset"]

NoFetcher ==
    [kind |-> "none"]

Init ==
    /\ args \in ArgLists
    /\ aliases \in AliasTables
    /\ tomlFile \in {Absent, Malformed} \cup {FileOf(d) : d \in PkgDocs}
    /\ lockFile \in {Absent, Malformed} \cup {FileOf(d) : d \in LockDocs}
    /\ cwd \in WorkDirs
    /\ pc = "main"
    /\ fetcher = NoFetcher
    /\ project = <<>>
    /\ pkg = Unset
    /\ lock = Unset
    /\ deps = EmptyDict
    /\ stdout = <<>>
    /\ opened = <<>>
    /\ exitStatus = -1
    /\ error = "none"
    /\ nIn = <<>>
    /\ nTable = <<>>
    /\ nOut = <<>>
    /\ nOp = "none"

\* an exception nothing catches: traceback, exit status 1
Raise(e) ==
    /\ pc' = "exit"
    /\ exitStatus' = 1
    /\ error' = e

Banner(kind) ==
    [kind |-> "banner", mode |-> kind]

Usage ==
    [kind |-> "usage"]

\* args[0], args[1] or args[2] is out of range
MainIndexError ==
    /\ pc = "main"
    /\ \/ Len(args) = 0
       \/ /\ Len(args) \in 1..2
          /\ args[1] \in {s_local, s_remote}
    /\ stdout' = IF Len(args) = 0 THEN stdout ELSE Append(stdout, Banner(args[1]))
    /\ Raise("IndexError")
    /\ UNCHANGED <<args, aliases, tomlFile, lockFile, cwd, fetcher, project, pkg,
                   lock, deps, opened>>
    /\ UNCHANGED normVars

\* kind == 'local'
MainLocal ==
    /\ pc = "main"
    /\ Len(args) >= 3
    /\ args[1] = s_local
    /\ stdout' = Append(stdout, Banner(s_local))
    /\ fetcher' = [kind |-> "local", location |-> args[2]]
    /\ project' = args[3]
    /\ pc' = "fetch_pkg"
    /\ UNCHANGED <<args, aliases, tomlFile, lockFile, cwd, pkg, lock, deps, opened,
                   exitStatus, error>>
    /\ UNCHANGED normVars

\* kind == 'remote'
MainRemote ==
    /\ pc = "main"
    /\ Len(args) >= 3
    /\ args[1] = s_remote
    /\ stdout' = Append(stdout, Banner(s_remote))
    /\ fetcher' = [kind |-> "remote", org |-> args[2], project |-> args[3]]
    /\ project' = args[3]
    /\ pc' = "fetch_pkg"
    /\ UNCHANGED <<args, aliases, tomlFile, lockFile, cwd, pkg, lock, deps, opened,
                   exitStatus, error>>
    /\ UNCHANGED normVars

\* else: print the usage line, sys.exit(1)
MainUsage ==
    /\ pc = "main"
    /\ Len(args) >= 1
    /\ args[1] \notin {s_local, s_remote}
    /\ stdout' = Append(stdout, Usage)
    /\ Raise("SystemExit")
    /\ UNCHANGED <<args, aliases, tomlFile, lockFile, cwd, fetcher, project, pkg,
                   lock, deps, opened>>
    /\ UNCHANGED normVars

\* pkg = self.fetcher.fetch_toml("Gopkg.toml")
FetchPkg ==
    /\ pc = "fetch_pkg"
    /\ LET r == Target(fetcher, s_Gopkg_toml)
           e == FetchError(fetcher, Resource(r))
       IN  /\ opened' = Append(opened, r)
           /\ IF e = "none"
              THEN /\ pkg' = Resource(r).doc
                   /\ pc' = "fetch_lock"
                   /\ UNCHANGED <<exitStatus, error>>
              ELSE /\ Raise(e)
                   /\ UNCHANGED pkg
    /\ UNCHANGED <<args, aliases, tomlFile, lockFile, cwd, fetcher, project, lock,
                   deps, stdout>>
    /\ UNCHANGED normVars

\* lock = self.fetcher.fetch_toml("Gopkg.lock")
FetchLock ==
    /\ pc = "fetch_lock"
    /\ LET r == Target(fetcher, s_Gopkg_lock)
           e == FetchError(fetcher, Resource(r))
       IN  /\ opened' = Append(opened, r)
           /\ IF e = "none"
              THEN /\ lock' = Resource(r).doc
                   /\ pc' = "join"
                   /\ UNCHANGED <<exitStatus, error>>
              ELSE /\ Raise(e)
                   /\ UNCHANGED lock
    /\ UNCHANGED <<args, aliases, tomlFile, lockFile, cwd, fetcher, project, pkg,
                   deps, stdout>>
    /\ UNCHANGED normVars

\* return self.__third_party_constraints(pkg, lock); deps = auditor.audit()
ThirdPartyConstraints ==
    /\ pc = "join"
    /\ LET r == third_party_constraints(pkg, lock, aliases)
       IN  /\ deps' = r.result
           /\ stdout' = stdout \o r.printed
    /\ pc' = "open"
    /\ UNCHANGED <<args, aliases, tomlFile, lockFile, cwd, fetcher, project, pkg,
                   lock, opened, exitStatus, error>>
    /\ UNCHANGED normVars

\* the report is opened while the documents are still to be fetched
OpenCsvBeforeAudit ==
    /\ pc = "fetch_pkg"
    /\ cwd' = Put(cwd, csv_file(project), <<>>)
    /\ UNCHANGED <<args, aliases, tomlFile, lockFile, pc, fetcher, project, pkg,
                   lock, deps, stdout, opened, exitStatus, error>>
    /\ UNCHANGED normVars

\* with open(csv_file, 'wb') as io: the file is created, or truncated
OpenCsv ==
    /\ pc = "open"
    /\ cwd' = Put(cwd, csv_file(project), <<>>)
    /\ pc' = "write"
    /\ UNCHANGED <<args, aliases, tomlFile, lockFile, fetcher, project, pkg, lock,
                   deps, stdout, opened, exitStatus, error>>
    /\ UNCHANGED normVars

\* the header, then one line per item of deps; the file is closed and main returns
WriteCsv ==
    /\ pc = "write"
    /\ \E order \in Orders(DOMAIN deps), items \in ItemLists(NORMALIZATIONS) :
           cwd' = Put(cwd, csv_file(project), CsvLines(deps, order, items))
    /\ pc' = "exit"
    /\ exitStatus' = 0
    /\ UNCHANGED <<args, aliases, tomlFile, lockFile, fetcher, project, pkg, lock,
                   deps, stdout, opened, error>>
    /\ UNCHANGED normVars

Next ==
    \/ MainIndexError
    \/ MainLocal
    \/ MainRemote
    \/ MainUsage
    \/ FetchPkg
    \/ FetchLock
    \/ ThirdPartyConstraints
    \/ OpenCsv
    \/ WriteCsv

Spec ==
    Init /\ [][Next]_vars

----------------------------------------------------------------------------
(* The Normalizer's methods, each applied to one argument.                 *)

MaxChunks ==
    3

MaxShaInput ==
    8

\* the pieces dependency names are put together from
Chunks ==
    {s_k8s_io, <<"/">>, i_kubernetes, s_gopkg_yaml}

RECURSIVE Concat(_)
Concat(ss) ==
    IF ss = <<>> THEN <<>> ELSE Head(ss) \o Concat(Tail(ss))

\* dependency names, and revisions of every length up to MaxShaInput
NormInputs ==
    {Concat(ss) : ss \in SeqsUpTo(Chunks, MaxChunks)}
        \cup {Take(i_abc, n) : n \in 0..MaxShaInput} \cup {i_fff}

InitNormalizer ==
    /\ args = <<>>
    /\ aliases = ALIASES
    /\ tomlFile = Absent
    /\ lockFile = Absent
    /\ cwd = EmptyDict
    /\ pc = "normalizer"
    /\ fetcher = NoFetcher
    /\ project = <<>>
    /\ pkg = Unset
    /\ lock = Unset
    /\ deps = EmptyDict
    /\ stdout = <<>>
    /\ opened = <<>>
    /\ exitStatus = -1
    /\ error = "none"
    /\ nIn \in NormInputs
    /\ nTable \in ItemLists(NORMALIZATIONS)
    /\ nOut = <<>>
    /\ nOp = "none"

CallNormalizeDep ==
    /\ pc = "normalizer"
    /\ nOp = "none"
    /\ nOut' = normalize_dep(nIn, nTable)
    /\ nOp' = "normalize_dep"
    /\ UNCHANGED <<nIn, nTable>>
    /\ UNCHANGED mainVars

CallShortName ==
    /\ pc = "normalizer"
    /\ nOp = "none"
    /\ nOut' = short_name(nIn)
    /\ nOp' = "short_name"
    /\ UNCHANGED <<nIn, nTable>>
    /\ UNCHANGED mainVars

CallShortSha ==
    /\ pc = "normalizer"
    /\ nOp = "none"
    /\ nOut' = short_sha(nIn)
    /\ nOp' = "short_sha"
    /\ UNCHANGED <<nIn, nTable>>
    /\ UNCHANGED mainVars

NextNormalizer ==
    \/ CallNormalizeDep
    \/ CallShortName
    \/ CallShortSha

SpecNormalizer ==
    InitNormalizer /\ [][NextNormalizer]_vars

----------------------------------------------------------------------------
(* The properties.                                                         *)

\* the name a constraint stands for once the alias table was applied
Resolved(name) ==
    IF name \in DOMAIN aliases THEN aliases[name] ELSE name

\* the names the lock document holds
LockNames ==
    {lock.projects[i].name : i \in 1..Len(lock.projects)}

\* the revision of the last entry of the lock document that bears the name
LastRevision(name) ==
    LET at == {i \in 1..Len(lock.projects) : lock.projects[i].name = name}
    IN  lock.projects[CHOOSE i \in at : \A j \in at : j <= i].revision

\* the constraints whose resolved name the lock document does not hold
Unresolved ==
    {i \in 1..Len(pkg.constraint) : Resolved(pkg.constraint[i].name) \notin LockNames}

\* both documents were fetched and parsed
Fetched ==
    pkg # Unset /\ lock # Unset

\* audit() has returned
Audited ==
    Fetched /\ pc \in {"open", "write", "exit"}

\* the report of this run
Report ==
    cwd[csv_file(project)]

\* the working directory is as it was before the run
Untouched ==
    cwd \in WorkDirs

\* 'github.com/go-yaml/yaml,yaml,abcdef1\n'
row_yaml_abcdef1 ==
    <<"g","i","t","h","u","b",".","c","o","m","/","g","o","-","y","a","m","l","/","y","a","m","l",",","y","a","m","l",",","a","b","c","d","e","f","1","\n">>

\* 'github.com/go-yaml/yaml,yaml,abcdef\n'
row_yaml_abcdef ==
    <<"g","i","t","h","u","b",".","c","o","m","/","g","o","-","y","a","m","l","/","y","a","m","l",",","y","a","m","l",",","a","b","c","d","e","f","\n">>

\* 'github.com/kubernetes/kubernetes,kubernetes,fff515\n'
row_k8s_fff515 ==
    <<"g","i","t","h","u","b",".","c","o","m","/","k","u","b","e","r","n","e","t","e","s","/","k","u","b","e","r","n","e","t","e","s",",","k","u","b","e","r","n","e","t","e","s",",","f","f","f","5","1","5","\n">>

\* C1: every key of the dict audit() returns is a name of the lock document,
\* is the alias-resolved name of some constraint, and is mapped to the
\* revision the lock document records for that name.
C1_AuditKeysFromLock ==
    Audited =>
        \A d \in DOMAIN deps :
            /\ d \in LockNames
            /\ \E i \in 1..Len(pkg.constraint) : Resolved(pkg.constraint[i].name) = d
            /\ deps[d] = LastRevision(d)

C1_Witness ==
    /\ pc = "exit"
    /\ Audited
    /\ \E i \in 1..Len(pkg.constraint) :
           /\ pkg.constraint[i].name \in DOMAIN aliases
           /\ aliases[pkg.constraint[i].name] \in DOMAIN deps

\* C2: a constraint whose resolved name the lock document does not hold is
\* left out of the result and reported by exactly one warning, the other
\* constraints are in the result, and the run ends with exit status 0 and the
\* report written; the report is the header alone when nothing resolves.
C2_UnresolvedSkippedWithWarning ==
    (pc = "exit" /\ Fetched) =>
        /\ \A i \in 1..Len(pkg.constraint) :
               LET d == Resolved(pkg.constraint[i].name)
               IN  /\ (i \in Unresolved) <=> (d \notin DOMAIN deps)
                   /\ Cardinality({j \in 1..Len(stdout) : stdout[j] = Warning(d)})
                          = Cardinality({k \in Unresolved :
                                             Resolved(pkg.constraint[k].name) = d})
        /\ Cardinality({j \in 1..Len(stdout) : stdout[j].kind = "warning"})
               = Cardinality(Unresolved)
        /\ exitStatus = 0
        /\ error = "none"
        /\ csv_file(project) \in DOMAIN cwd
        /\ Report[1] = s_header
        /\ (Unresolved = 1..Len(pkg.constraint)) => (Report = <<s_header>>)

C2_Witness ==
    /\ pc = "exit"
    /\ Fetched
    /\ Unresolved = {1}
    /\ Len(pkg.constraint) = 2
    /\ stdout[Len(stdout)] = Warning(Resolved(pkg.constraint[1].name))
    /\ Len(Report) = 2

\* C3: a command line whose mode is neither local nor remote, or that does
\* not hold exactly a mode and two arguments, makes main print the usage line
\* and exit with status 1, nothing fetched and the working directory untouched.
C3_UsageOnBadArguments ==
    (pc = "exit" /\ (Len(args) # 3 \/ args[1] \notin {s_local, s_remote})) =>
        /\ \E j \in 1..Len(stdout) : stdout[j] = Usage
        /\ exitStatus = 1
        /\ opened = <<>>
        /\ Untouched

\* C4: the report is created or truncated only once both documents were
\* fetched and the join finished; a local run in which a document is missing
\* or is not TOML ends with an exception and exit status 1, the working
\* directory untouched.
C4_ReportOpenedAfterAudit ==
    /\ ~Untouched => (Audited /\ pc \in {"write", "exit"})
    /\ (pc = "exit" /\ fetcher.kind = "local" /\ ~Fetched) =>
           /\ exitStatus = 1
           /\ error \in {"IOError", "TomlDecodeError"}
           /\ Untouched

C4_Witness ==
    /\ pc = "exit"
    /\ fetcher.kind = "local"
    /\ fetcher.location = RepoDir
    /\ tomlFile.kind = "toml"
    /\ lockFile = Absent
    /\ pkg # Unset
    /\ error = "IOError"
    /\ csv_file(project) \in DOMAIN cwd

\* the (key, value) pair of the first item whose key is a prefix of dep
FirstMatch(dep, items) ==
    LET at == {i \in 1..Len(items) : StartsWith(dep, items[i][1])}
    IN  items[CHOOSE i \in at : \A j \in at : i <= j]

\* C5: normalize_dep returns dep with its leading occurrence of the first
\* matching prefix replaced and every character after that prefix unchanged;
\* dep itself when no prefix matches.
C5_OnlyLeadingPrefixReplaced ==
    (nOp = "normalize_dep") =>
        IF \E i \in 1..Len(nTable) : StartsWith(nIn, nTable[i][1])
        THEN nOut = FirstMatch(nIn, nTable)[2]
                        \o Drop(nIn, Len(FirstMatch(nIn, nTable)[1]))
        ELSE nOut = nIn

\* C6: short_sha(s) is the prefix of s of length 6, s itself when s is
\* shorter than 6.
C6_ShortShaIsPrefix ==
    (nOp = "short_sha") =>
        /\ Len(nOut) = (IF Len(nIn) < 6 THEN Len(nIn) ELSE 6)
        /\ \A i \in 1..Len(nOut) : nOut[i] = nIn[i]

C6_Witness ==
    /\ nOp = "short_sha"
    /\ Len(nIn) > 6
    /\ Len(nOut) = 6

\* the yaml scenario: one constraint gopkg.in/yaml.v2, one lock entry
\* github.com/go-yaml/yaml at abcdef1234567, the alias table of the scenario
YamlScenario ==
    /\ Len(args) = 3
    /\ args[1] \in {s_local, s_remote}
    /\ args[2] \in {RepoDir, i_org}
    /\ aliases = ScenarioAliases
    /\ tomlFile = FileOf([constraint |-> <<[name |-> s_gopkg_yaml]>>])
    /\ lockFile = FileOf([projects |-> <<[name |-> s_go_yaml, revision |-> i_abc]>>])

AfterLastSlash(n) ==
    LET k == CHOOSE k \in 0..Len(n) :
                 /\ k = 0 \/ n[k] = "/"
                 /\ \A j \in (k + 1)..Len(n) : n[j] # "/"
    IN  Drop(n, k)

\* the line the report is to hold for the dependency d
ExpectedLines(d) ==
    {LET n == normalize_dep(d, items)
     IN  n \o <<",">> \o AfterLastSlash(n) \o <<",">> \o Take(deps[d], 6) \o <<"\n">>
         : items \in ItemLists(NORMALIZATIONS)}

InsideDirectory(location, filename) ==
    IF location # <<>> /\ location[Len(location)] # "/"
    THEN location \o <<"/">> \o filename
    ELSE location \o filename

\* C9: a local run opens Gopkg.toml and then Gopkg.lock inside the directory
\* given, whether or not it was written with a trailing separator.
C9_ReadsInsideDirectory ==
    (fetcher.kind = "local") =>
        \A j \in 1..Len(opened) :
            opened[j] = InsideDirectory(fetcher.location,
                                        <<s_Gopkg_toml, s_Gopkg_lock>>[j])

\* the lock document holds two entries of the same name
DuplicateNames ==
    \E i, j \in 1..Len(lock.projects) :
        i # j /\ lock.projects[i].name = lock.projects[j].name

\* C10: a lock document with several entries of one name raises no error,
\* and a constraint resolving to that name is reported at the revision of
\* the last of them.
C10_LastEntryWins ==
    (Audited /\ DuplicateNames) =>
        /\ error = "none"
        /\ pc = "exit" => exitStatus = 0
        /\ \A i \in 1..Len(pkg.constraint) :
               LET d == Resolved(pkg.constraint[i].name)
               IN  d \in LockNames => (d \in DOMAIN deps /\ deps[d] = LastRevision(d))

C10_Witness ==
    /\ pc = "exit"
    /\ Audited
    /\ lock.projects = <<[name |-> i_k8s_kubernetes, revision |-> i_fff],
                         [name |-> i_k8s_kubernetes, revision |-> i_abc]>>
    /\ i_k8s_kubernetes \in DOMAIN deps
    /\ deps[i_k8s_kubernetes] = i_abc

====
